---- MODULE Spec2Model ----
(***************************************************************************)
(* Track clean-up engine of wavetracker (src/wavetracker/clean_up.py):     *)
(* window sweep (get_valid_ids_by_freq_dist, connect_by_similarity),       *)
(* power_density_filter, connect_with_overlap and the top-n_fish selection *)
(* of main.                                                                *)
(*                                                                         *)
(* Numbers.  Time bins are BinSeconds long, times[k] = k * BinSeconds.     *)
(* Frequencies are whole Hz, powers whole dB (the peak channel of sign_v). *)
(* Every comparison of the code against a fractional constant is written  *)
(* cross-multiplied (density < 0.1 is 10 * count < span).  Medians are     *)
(* kept doubled, Gaussian kernel heights in thousandths of the peak.       *)
(* NaN (absent id) is the id -1.  np.argsort is not a stable sort, so the  *)
(* order of equal keys is a nondeterministic choice.                       *)
(***************************************************************************)
EXTENDS Integers, Sequences, FiniteSets, TLC

VARIABLES fund_v, idx_v, sign_v, ident_v, valid_v, n_fish,
          pc, i0, kde_th, valid_ids, previous_valid_ids,
          sim_pairs, connections_candidates, pair_nos,
          last_merge, entry, loaded, n_times

vars == <<fund_v, idx_v, sign_v, ident_v, valid_v, n_fish,
          pc, i0, kde_th, valid_ids, previous_valid_ids,
          sim_pairs, connections_candidates, pair_nos,
          last_merge, entry, loaded, n_times>>

-----------------------------------------------------------------------------
(* Bounds of the model *)

MaxTracks == 3
MaxFish == 2

(* Program constants *)

BinSeconds == 20
stride == 600
overlap_pct == 20
f_th2 == 5
(* a tolerance pad of 15 minutes in place of 5 *)
time_tol_wide == 15 * 60
time_tol == 300
freq_tol2 == 5
NaN == 0 - 1
KdeNone == 0

-----------------------------------------------------------------------------
(* Generic helpers *)

Abs(x) == IF x < 0 THEN 0 - x ELSE x

Min2(a, b) == IF a <= b THEN a ELSE b

Max2(a, b) == IF a >= b THEN a ELSE b

SetMin(S) == CHOOSE x \in S : \A y \in S : x <= y

SetMax(S) == CHOOSE x \in S : \A y \in S : x >= y

RECURSIVE SumOver(_, _)
SumOver(f, S) ==
    IF S = {} THEN 0
    ELSE LET x == CHOOSE y \in S : TRUE IN f[x] + SumOver(f, S \ {x})

RECURSIVE SetToSortedSeq(_)
SetToSortedSeq(S) ==
    IF S = {} THEN << >>
    ELSE LET m == SetMin(S) IN <<m>> \o SetToSortedSeq(S \ {m})

RECURSIVE Gcd(_, _)
Gcd(a, b) == IF b = 0 THEN a ELSE Gcd(b, a % b)

Lcm(a, b) == (a * b) \div Gcd(a, b)

RECURSIVE LcmOver(_)
LcmOver(S) ==
    IF S = {} THEN 1
    ELSE LET x == CHOOSE y \in S : TRUE IN Lcm(x, LcmOver(S \ {x}))

(* times array: times[k] in seconds *)
times(k) == k * BinSeconds

-----------------------------------------------------------------------------
(* The detection store as the functions receive it *)

Store == [fund_v |-> fund_v, idx_v |-> idx_v, sign_v |-> sign_v,
          ident_v |-> ident_v, valid_v |-> valid_v]

Pos(st) == 1 .. Len(st.idx_v)

(* positions carrying id, in array order: the mask (ident_v == id) *)
Of(st, id) == {k \in Pos(st) : st.ident_v[k] = id}

(* np.unique(ident_v[~np.isnan(ident_v)]) as a set *)
AssignedIds(st) == {st.ident_v[k] : k \in Pos(st)} \ {NaN}

(* np.unique(ident_v[(~np.isnan(ident_v)) & (valid_v == 1)]) *)
ValidIds(st) == {st.ident_v[k] : k \in {j \in Pos(st) : st.valid_v[j] = 1}} \ {NaN}

(* idx_v[ident_v == id][0] and [-1]: first and last in array order *)
FirstIdx(st, id) == st.idx_v[SetMin(Of(st, id))]

LastIdx(st, id) == st.idx_v[SetMax(Of(st, id))]

(* the set of time indices a track occupies *)
TakenIdxs(st, id) == {st.idx_v[k] : k \in Of(st, id)}

Relabel(st, S, id) ==
    [st EXCEPT !.ident_v = [k \in Pos(st) |-> IF k \in S THEN id ELSE st.ident_v[k]]]

SetValid(st, S, v) ==
    [st EXCEPT !.valid_v = [k \in Pos(st) |-> IF k \in S THEN v ELSE st.valid_v[k]]]

-----------------------------------------------------------------------------
(* Input: the arrays main loads.  A recording is a choice of up to         *)
(* MaxTracks provisional tracks of the upstream tracker, merged in time    *)
(* order; ids are given in ascending or descending order of the choice.    *)

Det(t, f, p) == [t |-> t, f |-> f, p |-> p]

(* a track with one detection in every bin of lo..hi but those of skip *)
Run(lo, hi, skip, f, p) ==
    LET bins == SelectSeq([j \in 1 .. hi - lo + 1 |-> lo + j - 1],
                          LAMBDA b : b \notin skip)
    IN [j \in 1 .. Len(bins) |-> Det(bins[j], f, p)]

TrackLib ==
    << Run(45, 68, {50}, 500, 0 - 50),
       Run(69, 72, {}, 503, 0 - 50),
       << Det(50, 504, 0 - 50), Det(69, 504, 0 - 50) >>,
       Run(45, 50, {}, 600, 0 - 50),
       Run(46, 53, {}, 620, 0 - 120),
       Run(0, 3, {}, 500, 0 - 50),
       Run(5, 8, {}, 501, 0 - 50),
       Run(14, 34, {}, 503, 0 - 50),
       << Det(0, 600, 0 - 400), Det(1, 600, 0 - 50),
          Det(30, 600, 0 - 50), Det(40, 610, 0 - 50) >>,
       << Det(0, 700, 0 - 400), Det(1, 700, 0 - 50),
          Det(21, 700, 0 - 50), Det(32, 700, 0 - 50) >>,
       Run(48, 50, {}, 503, 0 - 50),
       Run(51, 71, {67}, 500, 0 - 50),
       << Det(48, 504, 0 - 50), Det(67, 504, 0 - 50) >>,
       Run(45, 49, {}, 500, 0 - 50),
       Run(50, 68, {}, 503, 0 - 50),
       << Det(50, 504, 0 - 50), Det(55, 504, 0 - 50), Det(60, 504, 0 - 50) >>,
       Run(0, 101, {51}, 800, 0 - 50),
       << Det(50, 801, 0 - 50), Det(51, 801, 0 - 50) >>,
       << Det(47, 550, 0 - 50), Det(70, 550, 0 - 50) >>,
       << Det(0, 900, 0 - 50), Det(1, 900, 0 - 50), Det(2, 900, 0 - 50),
          Det(10, 900, 0 - 400), Det(20, 900, 0 - 400),
          Det(30, 900, 0 - 50), Det(31, 900, 0 - 50), Det(32, 900, 0 - 50) >>,
       << Det(9, 505, 0 - 50), Det(10, 502, 0 - 50), Det(11, 502, 0 - 50) >>,
       Run(0, 100, {}, 1000, 0 - 50) \o << Det(130, 1000, 0 - 50) >>,
       << Det(100, 1003, 0 - 50), Det(110, 1003, 0 - 50), Det(120, 1003, 0 - 50) >>
          \o Run(131, 141, {}, 1003, 0 - 50),
       Run(101, 105, {}, 803, 0 - 50),
       << Det(34, 1200, 0 - 50), Det(53, 1200, 0 - 50) >>,
       << Det(22, 1203, 0 - 50), Det(35, 1203, 0 - 50), Det(39, 1203, 0 - 50) >>,
       << Det(36, 1206, 0 - 50), Det(40, 1206, 0 - 50), Det(45, 1203, 0 - 50) >> >>

(* shapes the upstream tracker left unassigned (ident NaN) *)
NoiseShapes == {19}

(* the shapes that occur together: a recording is a choice from one scene *)
Scenes ==
    { {6, 7, 8, 9, 10, 14, 19, 20, 21},
      {1, 2, 3, 4, 5, 11, 12, 13, 14, 15, 16, 19},
      {17, 18, 19, 24},
      {22, 23},
      {25, 26, 27} }

Choices ==
    {S \in UNION {SUBSET sc : sc \in Scenes} :
        Cardinality(S) >= 1 /\ Cardinality(S) <= MaxTracks}

(* the id the upstream tracker gave shape s of the choice S *)
InputId(S, desc, s) ==
    IF s \in NoiseShapes THEN NaN
    ELSE LET T == S \ NoiseShapes
             below == Cardinality({x \in T : x < s})
         IN IF desc THEN Cardinality(T) - 1 - below ELSE below

(* the detections of shape s of the library lib with the id it was given *)
Tagged(lib, S, desc, s) ==
    [j \in 1 .. Len(lib[s]) |->
        [t |-> lib[s][j].t, f |-> lib[s][j].f, p |-> lib[s][j].p,
         id |-> InputId(S, desc, s)]]

RECURSIVE Gather(_, _, _, _)
Gather(lib, S, desc, s) ==
    IF s > Len(lib) THEN << >>
    ELSE (IF s \in S THEN Tagged(lib, S, desc, s) ELSE << >>)
         \o Gather(lib, S, desc, s + 1)

(* the loaded arrays are ordered by time index *)
Loaded(lib, S, desc) == SortSeq(Gather(lib, S, desc, 1), LAMBDA a, b : a.t < b.t)

StoreOf(d) ==
    [fund_v |-> [k \in 1 .. Len(d) |-> d[k].f],
     idx_v |-> [k \in 1 .. Len(d) |-> d[k].t],
     sign_v |-> [k \in 1 .. Len(d) |-> d[k].p],
     ident_v |-> [k \in 1 .. Len(d) |-> d[k].id],
     valid_v |-> [k \in 1 .. Len(d) |-> 0]]

Inputs ==
    LET lib == TrackLib
    IN {StoreOf(Loaded(lib, S, desc)) : S \in Choices, desc \in BOOLEAN}

-----------------------------------------------------------------------------
(* get_valid_ids_by_freq_dist *)

(* exp(-(d/sigma)^2/2) for sigma = 2 * f_th = 5 Hz at whole-Hz distance d,  *)
(* in thousandths; every kernel has the same sum over the frequency axis   *)
GaussTable ==
    <<1000, 980, 923, 835, 726, 607, 487, 375, 278, 198,
      135, 89, 56, 34, 20, 11, 6, 3, 2, 1>>

gauss(t, shift) ==
    LET d == Abs(t - shift)
    IN IF d < Len(GaussTable) THEN GaussTable[d + 1] ELSE 0

WindowMask(st, w0) ==
    {k \in Pos(st) : times(st.idx_v[k]) >= w0 /\ times(st.idx_v[k]) < w0 + stride}

(* ff: the assigned detections of the window *)
WindowAssigned(st, w0) == {k \in WindowMask(st, w0) : st.ident_v[k] # NaN}

(* kde at frequency x, in thousandths of one kernel's peak *)
Kde(st, W, x) == SumOver([k \in W |-> gauss(x, st.fund_v[k])], W)

(* np.max(g) * len(times of the first stride) * 0.05, in the same unit *)
NewKdeTh(n) ==
    50 * Cardinality({k \in 0 .. n - 1 :
                        times(k) >= times(0) /\ times(k) < times(0) + stride})

(* a detection of F is within half an axis step of valid_f *)
Supported(st, W, F, th) == \E k \in F : Kde(st, W, st.fund_v[k]) > th

(* twice np.median of the frequencies at positions S *)
Median2(st, S) ==
    LET ps == SetToSortedSeq(S)
        fs == SortSeq([j \in 1 .. Len(ps) |-> st.fund_v[ps[j]]], LAMBDA a, b : a < b)
        n == Len(fs)
    IN IF n % 2 = 1 THEN 2 * fs[(n + 1) \div 2]
       ELSE fs[n \div 2] + fs[n \div 2 + 1]

IdsAsRows(ids) ==
    LET q == SetToSortedSeq(ids) IN [j \in 1 .. Len(q) |-> <<q[j]>>]

(* the validity test without the hysteresis of old_valid_ids *)
ValidInWindow_NoHysteresis(st, W, old_valid_ids, th) ==
    {id \in {st.ident_v[k] : k \in W} :
        LET F == {k \in W : st.ident_v[k] = id}
        IN Cardinality(F) > 1 /\ Supported(st, W, F, th)}

ValidInWindow(st, W, old_valid_ids, th) ==
    {id \in {st.ident_v[k] : k \in W} :
        LET F == {k \in W : st.ident_v[k] = id}
        IN Cardinality(F) > 1
           /\ (Supported(st, W, F, th) \/ id \in old_valid_ids)}

(* the Validator marking valid only the detections inside the window *)
get_valid_ids_WindowOnly(n, st, old_valid_ids, w0, th0) ==
    LET W == WindowAssigned(st, w0)
    IN IF W = {}
       THEN [kde_th |-> KdeNone, valid_ids |-> IdsAsRows(old_valid_ids), st |-> st]
       ELSE LET th == IF th0 = KdeNone THEN NewKdeTh(n) ELSE th0
                ok == ValidInWindow(st, W, old_valid_ids, th)
                q == SetToSortedSeq(ok)
            IN [kde_th |-> th,
                valid_ids |->
                    [j \in 1 .. Len(q) |->
                        <<q[j],
                          Median2(st, {k \in W : st.ident_v[k] = q[j]}),
                          times(FirstIdx(st, q[j]))>>],
                st |-> SetValid(st, {k \in W : st.ident_v[k] \in ok}, 1)]

get_valid_ids_by_freq_dist(n, st, old_valid_ids, w0, th0) ==
    LET W == WindowAssigned(st, w0)
    IN IF W = {}
       THEN [kde_th |-> KdeNone, valid_ids |-> IdsAsRows(old_valid_ids), st |-> st]
       ELSE LET th == IF th0 = KdeNone THEN NewKdeTh(n) ELSE th0
                ok == ValidInWindow(st, W, old_valid_ids, th)
                q == SetToSortedSeq(ok)
            IN [kde_th |-> th,
                valid_ids |->
                    [j \in 1 .. Len(q) |->
                        <<q[j],
                          Median2(st, {k \in W : st.ident_v[k] = q[j]}),
                          times(FirstIdx(st, q[j]))>>],
                st |-> SetValid(st, {k \in Pos(st) : st.ident_v[k] \in ok}, 1)]

-----------------------------------------------------------------------------
(* connect_by_similarity *)

(* last_merge: what the last pass of a merge loop saw and did *)
NoMerge ==
    [kind |-> "none", merged |-> FALSE, rule |-> 0, id0 |-> NaN, id1 |-> NaN,
     retired |-> NaN, kept |-> NaN, del_id |-> NaN, lo |-> 0, hi |-> 0,
     before |-> << >>, valid_before |-> << >>]

RowIds(rows) == {rows[j][1] : j \in 1 .. Len(rows)}

RenameRows(rows, from, to) ==
    [j \in 1 .. Len(rows) |->
        IF rows[j][1] = from THEN [rows[j] EXCEPT ![1] = to] ELSE rows[j]]

RenameIdent(st, from, to) == Relabel(st, Of(st, from), to)

(* d_med_f of a pair of rows, doubled *)
DMedF2(rows, pr) == Abs(rows[pr[1]][2] - rows[pr[2]][2])

(* more than 1% of the detections of both tracks are at shared time bins *)
TooManyDoubles(d, len0, len1) == 100 * d > len1 /\ 100 * d > len0

(* a frequency jump above f_th where the joined, time-ordered run changes   *)
(* from one track to the other                                             *)
FreqJump(st, M, L) ==
    LET d_idx_v == {st.idx_v[k] : k \in M} \cap {st.idx_v[k] : k \in L}
        Lk == {k \in L : st.idx_v[k] \notin d_idx_v}
        J == M \cup Lk
    IN \E a \in J, b \in J :
          /\ a < b
          /\ \A c \in J : ~(a < c /\ c < b)
          /\ (a \in M) # (b \in M)
          /\ 2 * Abs(st.fund_v[b] - st.fund_v[a]) > f_th2

(* the loop body without the test of the frequency jump *)
SimilarityPair_NoJumpTest(st, rows, pr, w0) ==
    LET id0 == rows[pr[1]][1]
        id1 == rows[pr[2]][1]
        len0 == Cardinality(Of(st, id0))
        len1 == Cardinality(Of(st, id1))
        more_id == IF len0 > len1 THEN id0 ELSE id1
        less_id == IF more_id = id0 THEN id1 ELSE id0
        double_idx == TakenIdxs(st, id0) \cap TakenIdxs(st, id1)
        Win == WindowMask(st, w0)
        M == Of(st, more_id) \cap Win
        L == Of(st, less_id) \cap Win
        st1 == Relabel(st, {k \in Of(st, less_id) : st.idx_v[k] \in double_idx}, NaN)
        st2 == SetValid(st1, {k \in Of(st1, less_id) : st1.idx_v[k] \in double_idx}, 0)
        keep0 == rows[pr[1]][3] < rows[pr[2]][3]
        kept == IF keep0 THEN id0 ELSE id1
        retired == IF keep0 THEN id1 ELSE id0
    IN IF TooManyDoubles(Cardinality(double_idx), len0, len1)
       THEN [st |-> st, valid_ids |-> rows,
             merge |-> [NoMerge EXCEPT !.kind = "similarity", !.id0 = id0, !.id1 = id1,
                                       !.before = st.ident_v,
                                       !.valid_before = st.valid_v]]
       ELSE [st |-> RenameIdent(st2, retired, kept),
             valid_ids |-> RenameRows(rows, retired, kept),
             merge |-> [NoMerge EXCEPT !.kind = "similarity", !.merged = TRUE,
                                       !.id0 = id0, !.id1 = id1,
                                       !.retired = retired, !.kept = kept,
                                       !.del_id = less_id,
                                       !.before = st.ident_v,
                                       !.valid_before = st.valid_v]]

(* one pass of the loop body for the pair of rows pr *)
SimilarityPair(st, rows, pr, w0) ==
    LET id0 == rows[pr[1]][1]
        id1 == rows[pr[2]][1]
        len0 == Cardinality(Of(st, id0))
        len1 == Cardinality(Of(st, id1))
        more_id == IF len0 > len1 THEN id0 ELSE id1
        less_id == IF more_id = id0 THEN id1 ELSE id0
        double_idx == TakenIdxs(st, id0) \cap TakenIdxs(st, id1)
        Win == WindowMask(st, w0)
        M == Of(st, more_id) \cap Win
        L == Of(st, less_id) \cap Win
        st1 == Relabel(st, {k \in Of(st, less_id) : st.idx_v[k] \in double_idx}, NaN)
        st2 == SetValid(st1, {k \in Of(st1, less_id) : st1.idx_v[k] \in double_idx}, 0)
        keep0 == rows[pr[1]][3] < rows[pr[2]][3]
        kept == IF keep0 THEN id0 ELSE id1
        retired == IF keep0 THEN id1 ELSE id0
    IN IF TooManyDoubles(Cardinality(double_idx), len0, len1) \/ FreqJump(st, M, L)
       THEN [st |-> st, valid_ids |-> rows,
             merge |-> [NoMerge EXCEPT !.kind = "similarity", !.id0 = id0, !.id1 = id1,
                                       !.before = st.ident_v,
                                       !.valid_before = st.valid_v]]
       ELSE [st |-> RenameIdent(st2, retired, kept),
             valid_ids |-> RenameRows(rows, retired, kept),
             merge |-> [NoMerge EXCEPT !.kind = "similarity", !.merged = TRUE,
                                       !.id0 = id0, !.id1 = id1,
                                       !.retired = retired, !.kept = kept,
                                       !.del_id = less_id,
                                       !.before = st.ident_v,
                                       !.valid_before = st.valid_v]]

-----------------------------------------------------------------------------
(* power_density_filter *)

density_th10 == 1
dB_th == 0 - 100

(* int(60 * dps), the length of the moving-average kernel in bins *)
kernel_len == 60 \div BinSeconds

(* the peak power of the track's detection at time index b *)
PowerAt(st, P, b) == st.sign_v[SetMax({k \in P : st.idx_v[k] = b})]

(* np.interp(ii, i, p) at time index m, times the common multiple scale of  *)
(* the gaps between the track's detections                                 *)
Interp(st, P, scale, m) ==
    LET a == SetMax({st.idx_v[k] : k \in {j \in P : st.idx_v[j] <= m}})
        b == SetMin({st.idx_v[k] : k \in {j \in P : st.idx_v[j] >= m}})
    IN IF a = b THEN PowerAt(st, P, a) * scale
       ELSE (PowerAt(st, P, a) * (b - m) + PowerAt(st, P, b) * (m - a))
            * (scale \div (b - a))

(* the bins np.convolve(..., mode="same") sums for output bin m *)
KernelWindow(lo, hi, m) ==
    {x \in lo .. hi : x >= m + (kernel_len - 1) \div 2 - (kernel_len - 1)
                      /\ x <= m + (kernel_len - 1) \div 2}

(* ppp at bin m compared with dB_th: -1 below, 0 equal, 1 above; ppp is the *)
(* windowed sum of pp divided by corr_fac, the windowed count              *)
Smoothed(pp, scale, lo, hi, m) ==
    LET W == KernelWindow(lo, hi, m)
        sum == SumOver(pp, W)
        th == dB_th * scale * Cardinality(W)
    IN IF sum < th THEN 0 - 1 ELSE IF sum > th THEN 1 ELSE 0

(* the scale: a common multiple of the gaps between successive detections *)
GapScale(T) ==
    LcmOver({b - a : <<a, b>> \in {ab \in T \X T :
                ab[1] < ab[2] /\ \A c \in T : ~(ab[1] < c /\ c < ab[2])}})

(* up_idx and down_idx after the defaults and the two corrections *)
Segments(st, P) ==
    LET T == {st.idx_v[k] : k \in P}
        lo == SetMin(T)
        hi == SetMax(T)
        scale == GapScale(T)
        pp == [m \in lo .. hi |-> Interp(st, P, scale, m)]
        ppp == [m \in lo .. hi |-> Smoothed(pp, scale, lo, hi, m)]
        up0 == SetToSortedSeq({m \in lo .. hi - 1 : ppp[m] < 0 /\ ppp[m + 1] > 0})
        down0 == SetToSortedSeq({m \in lo + 1 .. hi : ppp[m - 1] > 0 /\ ppp[m] < 0})
        up1 == IF Len(up0) = 0 THEN <<lo>> ELSE up0
        down1 == IF Len(down0) = 0 THEN <<hi>> ELSE down0
        up2 == IF up1[1] > down1[1] THEN <<lo - 1>> \o up1 ELSE up1
        down2 == IF down1[Len(down1)] < up2[Len(up2)] THEN down1 \o <<hi + 1>> ELSE down1
    IN [up_idx |-> up2, down_idx |-> down2]

(* the detections the zip of up_idx and down_idx relabels *)
InSegments(st, P, seg) ==
    {k \in P : \E j \in 1 .. Min2(Len(seg.up_idx), Len(seg.down_idx)) :
                  st.idx_v[k] >= seg.up_idx[j] /\ st.idx_v[k] < seg.down_idx[j]}

(* the loop body with a re-split that does not ask for density > density_th *)
FilterId_SplitsSparse(st, id) ==
    LET P == Of(st, id)
        len == Cardinality(P)
        span == LastIdx(st, id) - FirstIdx(st, id)
        sum_p == SumOver(st.sign_v, P)
        sparse == 10 * len < density_th10 * (span + 1)
        weak == sum_p <= dB_th * len
        st1 == SetValid(st, P, 0)
        next_ident == SetMax(AssignedIds(st1)) + 1
        st2 == Relabel(st1, InSegments(st1, P, Segments(st1, P)), next_ident)
    IN IF ~(sparse \/ weak) THEN st
       ELSE IF ~(weak /\ span * BinSeconds > 10 * 60)
            THEN st1
       ELSE IF ~(10 * Cardinality({k \in P : st.sign_v[k] > dB_th}) > len)
            THEN st1
       ELSE SetValid(st2, Of(st2, next_ident), 1)

(* the loop body with a re-split that leaves the rest of the track valid *)
FilterId_RestStaysValid(st, id) ==
    LET P == Of(st, id)
        len == Cardinality(P)
        span == LastIdx(st, id) - FirstIdx(st, id)
        sum_p == SumOver(st.sign_v, P)
        sparse == 10 * len < density_th10 * (span + 1)
        weak == sum_p <= dB_th * len
        st1 == SetValid(st, P, 0)
        next_ident == SetMax(AssignedIds(st)) + 1
        st2 == Relabel(st, InSegments(st, P, Segments(st, P)), next_ident)
    IN IF ~(sparse \/ weak) THEN st
       ELSE IF ~(weak /\ 10 * len > density_th10 * (span + 1)
                      /\ span * BinSeconds > 10 * 60)
            THEN st1
       ELSE IF ~(10 * Cardinality({k \in P : st.sign_v[k] > dB_th}) > len)
            THEN st1
       ELSE SetValid(st2, Of(st2, next_ident), 1)

(* the body of the last loop for one id *)
FilterId(st, id) ==
    LET P == Of(st, id)
        len == Cardinality(P)
        span == LastIdx(st, id) - FirstIdx(st, id)
        sum_p == SumOver(st.sign_v, P)
        sparse == 10 * len < density_th10 * (span + 1)
        weak == sum_p <= dB_th * len
        st1 == SetValid(st, P, 0)
        next_ident == SetMax(AssignedIds(st1)) + 1
        st2 == Relabel(st1, InSegments(st1, P, Segments(st1, P)), next_ident)
    IN IF ~(sparse \/ weak) THEN st
       ELSE IF ~(weak /\ 10 * len > density_th10 * (span + 1)
                      /\ span * BinSeconds > 10 * 60)
            THEN st1
       ELSE IF ~(10 * Cardinality({k \in P : st.sign_v[k] > dB_th}) > len)
            THEN st1
       ELSE SetValid(st2, Of(st2, next_ident), 1)

RECURSIVE FilterLoop(_, _)
FilterLoop(st, ids) ==
    IF Len(ids) = 0 THEN st
    ELSE FilterLoop(FilterId(st, Head(ids)), Tail(ids))

power_density_filter(st) == FilterLoop(st, SetToSortedSeq(ValidIds(st)))

-----------------------------------------------------------------------------
(* connect_with_overlap *)

(* the four values in ascending order *)
Sorted4(q) == SortSeq(q, LAMBDA x, y : x < y)

(* [lo, hi] and [lo2, hi2] overlap the way the two if statements test it *)
SpansOverlap(lo, hi, lo2, hi2) ==
    \/ (lo <= lo2 /\ hi > lo2)
    \/ (lo2 <= lo /\ hi2 > lo)

(* sum and count of the frequency distances of the detection pairs that are *)
(* at most time_tol apart: mean_freq_dist is their quotient, nan for count 0 *)
FreqDists(st, F0, F1) ==
    LET near(k0) == {k1 \in F1 : times(Abs(st.idx_v[k0] - st.idx_v[k1])) <= time_tol}
        row(k0) == SumOver([k1 \in near(k0) |-> Abs(st.fund_v[k0] - st.fund_v[k1])],
                           near(k0))
    IN <<SumOver([k0 \in F0 |-> row(k0)], F0),
         SumOver([k0 \in F0 |-> Cardinality(near(k0))], F0)>>

(* the candidate row of the pair id0 < id1, or << >> when the pair is skipped *)
Candidate(st, id0, id1) ==
    LET t0_lo == times(FirstIdx(st, id0)) - time_tol
        t0_hi == times(LastIdx(st, id0)) + time_tol
        t1_lo == times(FirstIdx(st, id1)) - time_tol
        t1_hi == times(LastIdx(st, id1)) + time_tol
        overlap_t == Sorted4(<<t0_lo, t0_hi, t1_lo, t1_hi>>)
        inside(k) == times(st.idx_v[k]) > overlap_t[2] /\ times(st.idx_v[k]) < overlap_t[3]
        F0 == {k \in Of(st, id0) : inside(k)}
        F1 == {k \in Of(st, id1) : inside(k)}
        f0 == {st.fund_v[k] : k \in F0}
        f1 == {st.fund_v[k] : k \in F1}
        double == Cardinality({k \in Of(st, id0) : st.idx_v[k] \in TakenIdxs(st, id1)})
        fd == FreqDists(st, F0, F1)
    IN IF ~SpansOverlap(t0_lo, t0_hi, t1_lo, t1_hi) THEN << >>
       ELSE IF Cardinality(F0) <= 1 \/ Cardinality(F1) <= 1 THEN << >>
       ELSE IF ~SpansOverlap(2 * SetMin(f0) - freq_tol2, 2 * SetMax(f0) + freq_tol2,
                             2 * SetMin(f1) - freq_tol2, 2 * SetMax(f1) + freq_tol2)
            THEN << >>
       ELSE IF TooManyDoubles(double, Cardinality(Of(st, id0)), Cardinality(Of(st, id1)))
            THEN << >>
       ELSE <<id0, id1, fd[1], fd[2]>>

RECURSIVE CandidateRows(_, _, _, _)
CandidateRows(st, ids, i, j) ==
    IF i >= Len(ids) THEN << >>
    ELSE IF j > Len(ids) THEN CandidateRows(st, ids, i + 1, i + 2)
    ELSE LET c == Candidate(st, ids[i], ids[j])
         IN (IF c = << >> THEN << >> ELSE <<c>>) \o CandidateRows(st, ids, i, j + 1)

(* connections_candidates in the order of itertools.combinations *)
OverlapCandidates(st) == CandidateRows(st, SetToSortedSeq(ValidIds(st)), 1, 2)

(* row r sorts strictly before row q by mean_freq_dist; nan sorts last *)
DistLess(r, q) ==
    \/ (r[4] > 0 /\ q[4] = 0)
    \/ (r[4] > 0 /\ q[4] > 0 /\ r[3] * q[4] < q[3] * r[4])

(* the rewriting of the first column alone *)
RenamePairs_FirstColumn(rows, from, to) ==
    [j \in 1 .. Len(rows) |->
        [rows[j] EXCEPT ![1] = IF rows[j][1] = from THEN to ELSE rows[j][1]]]

RenamePairs(rows, from, to) ==
    [j \in 1 .. Len(rows) |->
        [rows[j] EXCEPT ![1] = IF rows[j][1] = from THEN to ELSE rows[j][1],
                        ![2] = IF rows[j][2] = from THEN to ELSE rows[j][2]]]

(* the decision with the outcome of the second density rule the wrong way  *)
(* round: the dense track is the one deleted in the region                 *)
Decide_DenseDeleted(id0, id1, c0, c1, d, R) ==
    LET low0 == c0 = 0 \/ 10 * d <= c0
        low1 == c1 = 0 \/ 10 * d <= c1
    IN IF c0 <= 1 /\ c1 <= 1 THEN <<TRUE, 1, NaN, NaN>>
       ELSE IF low0 /\ low1 THEN <<TRUE, 2, id0, id1>>
       ELSE IF 10 * c0 <= R /\ 3 * c0 < c1 THEN <<TRUE, 3, id1, id0>>
       ELSE IF 10 * c1 <= R /\ 3 * c1 < 10 * c0 THEN <<TRUE, 3, id1, id0>>
       ELSE IF 10 * c0 <= 3 * R /\ c0 > 0 /\ 10 * d >= 7 * c0 /\ 2 * c0 < c1
            THEN <<TRUE, 4, id1, id0>>
       ELSE IF 10 * c1 <= 3 * R /\ c1 > 0 /\ 10 * d >= 7 * c1 /\ 2 * c1 < c0
            THEN <<TRUE, 4, id0, id1>>
       ELSE <<FALSE, 0, NaN, NaN>>

(* the decision of lines 382-427: <<merge, rule, id_for_overlap, del_id>>,   *)
(* id_for_overlap NaN standing for None                                    *)
Decide(id0, id1, c0, c1, d, R) ==
    LET low0 == c0 = 0 \/ 10 * d <= c0
        low1 == c1 = 0 \/ 10 * d <= c1
    IN IF c0 <= 1 /\ c1 <= 1 THEN <<TRUE, 1, NaN, NaN>>
       ELSE IF low0 /\ low1 THEN <<TRUE, 2, id0, id1>>
       ELSE IF 10 * c0 <= R /\ 3 * c0 < c1 THEN <<TRUE, 3, id1, id0>>
       ELSE IF 10 * c1 <= R /\ 3 * c1 < 10 * c0 THEN <<TRUE, 3, id0, id1>>
       ELSE IF 10 * c0 <= 3 * R /\ c0 > 0 /\ 10 * d >= 7 * c0 /\ 2 * c0 < c1
            THEN <<TRUE, 4, id1, id0>>
       ELSE IF 10 * c1 <= 3 * R /\ c1 > 0 /\ 10 * d >= 7 * c1 /\ 2 * c1 < c0
            THEN <<TRUE, 4, id0, id1>>
       ELSE <<FALSE, 0, NaN, NaN>>

InRegion(st, id, lo, hi) == {k \in Of(st, id) : st.idx_v[k] >= lo /\ st.idx_v[k] <= hi}

(* the relabelling without the deletion of del_id in the region *)
ApplyMerge_NoDelete(st, dec, first_id, not_first_id, last_id, lo, hi) ==
    IF dec[2] = 1 THEN RenameIdent(st, not_first_id, first_id)
    ELSE LET st2 == Relabel(st, InRegion(st, dec[3], lo, hi), first_id)
         IN IF last_id # first_id
            THEN Relabel(st2, {k \in Of(st2, last_id) : st2.idx_v[k] > hi}, first_id)
            ELSE st2

(* the relabelling without the step for the detections after the region *)
ApplyMerge_NoTail(st, dec, first_id, not_first_id, last_id, lo, hi) ==
    IF dec[2] = 1 THEN RenameIdent(st, not_first_id, first_id)
    ELSE LET st1 == Relabel(st, InRegion(st, dec[4], lo, hi), NaN)
         IN Relabel(st1, InRegion(st1, dec[3], lo, hi), first_id)

(* lines 436-456: the relabelling of a merge *)
ApplyMerge(st, dec, first_id, not_first_id, last_id, lo, hi) ==
    IF dec[2] = 1 THEN RenameIdent(st, not_first_id, first_id)
    ELSE LET st1 == Relabel(st, InRegion(st, dec[4], lo, hi), NaN)
             st2 == Relabel(st1, InRegion(st1, dec[3], lo, hi), first_id)
         IN IF last_id # first_id
            THEN Relabel(st2, {k \in Of(st2, last_id) : st2.idx_v[k] > hi}, first_id)
            ELSE st2

(* one pass of the loop body for row p; a and b are the places np.argsort   *)
(* of first_last_idxs puts first and last                                  *)
OverlapPair(st, rows, p, a, b) ==
    LET id0 == rows[p][1]
        id1 == rows[p][2]
        first_last_idxs == <<FirstIdx(st, id0), LastIdx(st, id0),
                             FirstIdx(st, id1), LastIdx(st, id1)>>
        overlap_category == <<0, 0, 1, 1>>
        sorted == Sorted4(first_last_idxs)
        c0 == Cardinality(InRegion(st, id0, sorted[2], sorted[3]))
        c1 == Cardinality(InRegion(st, id1, sorted[2], sorted[3]))
        d == Cardinality(TakenIdxs(st, id0) \cap TakenIdxs(st, id1))
        dec == Decide(id0, id1, c0, c1, d, sorted[3] - sorted[2] + 1)
        first_id == IF overlap_category[a] = 0 THEN id0 ELSE id1
        not_first_id == IF first_id = id0 THEN id1 ELSE id0
        last_id == IF overlap_category[b] = 0 THEN id0 ELSE id1
    IN IF Of(st, id0) = {} \/ Of(st, id1) = {} \/ ~dec[1]
       THEN [st |-> st, rows |-> rows,
             merge |-> [NoMerge EXCEPT !.kind = "overlap", !.id0 = id0, !.id1 = id1,
                                       !.before = st.ident_v,
                                       !.valid_before = st.valid_v]]
       ELSE [st |-> ApplyMerge(st, dec, first_id, not_first_id, last_id,
                               sorted[2], sorted[3]),
             rows |-> RenamePairs(rows, not_first_id, first_id),
             merge |-> [kind |-> "overlap", merged |-> TRUE,
                        rule |-> dec[2], id0 |-> id0, id1 |-> id1,
                        retired |-> not_first_id, kept |-> first_id,
                        del_id |-> dec[4], lo |-> sorted[2], hi |-> sorted[3],
                        before |-> st.ident_v, valid_before |-> st.valid_v]]

(* the argsort of first_last_idxs may put a first and b last *)
ArgsortEnds(st, rows, p) ==
    IF Of(st, rows[p][1]) = {} \/ Of(st, rows[p][2]) = {} THEN {<<1, 4>>}
    ELSE LET q == <<FirstIdx(st, rows[p][1]), LastIdx(st, rows[p][1]),
                    FirstIdx(st, rows[p][2]), LastIdx(st, rows[p][2])>>
         IN {ab \in (1 .. 4) \X (1 .. 4) :
                /\ ab[1] # ab[2]
                /\ \A x \in 1 .. 4 : q[ab[1]] <= q[x] /\ q[x] <= q[ab[2]]}

-----------------------------------------------------------------------------
(* main: the best n_fish *)

Count(st, id) == Cardinality(Of(st, id))

(* idents[-n_fish:] after the argsort of counts *)
BestSets(st, n) ==
    LET idents == AssignedIds(st)
    IN IF n = 0 \/ n >= Cardinality(idents) THEN {idents}
       ELSE {V \in SUBSET idents :
                /\ Cardinality(V) = n
                /\ \A v \in V, u \in idents \ V : Count(st, u) <= Count(st, v)}

(* a selection that also blanks the frequency of what it drops *)
KeepBest_ClearsFund(st, V) ==
    [st EXCEPT !.valid_v = [k \in Pos(st) |-> IF st.ident_v[k] \in V THEN 1 ELSE 0],
               !.fund_v = [k \in Pos(st) |-> IF st.ident_v[k] \in V
                                             THEN st.fund_v[k] ELSE 0],
               !.ident_v = [k \in Pos(st) |-> IF st.ident_v[k] \in V
                                              THEN st.ident_v[k] ELSE NaN]]

KeepBest(st, V) ==
    [st EXCEPT !.valid_v = [k \in Pos(st) |-> IF st.ident_v[k] \in V THEN 1 ELSE 0],
               !.ident_v = [k \in Pos(st) |-> IF st.ident_v[k] \in V
                                              THEN st.ident_v[k] ELSE NaN]]

-----------------------------------------------------------------------------
(* main: load, parameters, window sweep *)

step == (stride * (100 - overlap_pct)) \div 100

Init ==
    \E st \in Inputs :
           /\ fund_v = st.fund_v
           /\ idx_v = st.idx_v
           /\ sign_v = st.sign_v
           /\ ident_v = st.ident_v
           /\ valid_v = st.valid_v
           /\ loaded = st
           /\ entry = st
           /\ n_fish = 2
           /\ n_times = st.idx_v[Len(st.idx_v)] + 1
           /\ pc = "validate"
           /\ i0 = 0
           /\ kde_th = KdeNone
           /\ valid_ids = << >>
           /\ previous_valid_ids = {}
           /\ sim_pairs = {}
           /\ connections_candidates = << >>
           /\ pair_nos = {}
           /\ last_merge = NoMerge

SetStore(st) ==
    /\ fund_v' = st.fund_v
    /\ idx_v' = st.idx_v
    /\ sign_v' = st.sign_v
    /\ ident_v' = st.ident_v
    /\ valid_v' = st.valid_v

(* the for statement of the sweep takes the next i0 or the sweep is over *)
NextWindow ==
    /\ i0' = i0 + step
    /\ pc' = IF i0 + step < times(n_times - 1) THEN "validate" ELSE "filter"

Validate ==
    /\ pc = "validate"
    /\ LET r == get_valid_ids_by_freq_dist(n_times, Store, previous_valid_ids, i0, kde_th)
       IN /\ SetStore(r.st)
          /\ kde_th' = r.kde_th
          /\ valid_ids' = r.valid_ids
    /\ pc' = "similarity"
    /\ last_merge' = NoMerge
    /\ UNCHANGED <<n_fish, i0, previous_valid_ids, sim_pairs,
                   connections_candidates, pair_nos, entry, loaded, n_times>>

(* len(valid_ids) == 0: the empty array is returned as previous_valid_ids *)
SimilarityReturn ==
    /\ pc = "similarity"
    /\ Len(valid_ids) = 0
    /\ previous_valid_ids' = {}
    /\ NextWindow
    /\ last_merge' = NoMerge
    /\ UNCHANGED <<fund_v, idx_v, sign_v, ident_v, valid_v, n_fish, kde_th,
                   valid_ids, sim_pairs, connections_candidates, pair_nos,
                   entry, loaded, n_times>>

(* valid_ids[:, 1] on the one-dimensional array an empty window passed on *)
SimilarityIndexError ==
    /\ pc = "similarity"
    /\ Len(valid_ids) > 0
    /\ Len(valid_ids[1]) = 1
    /\ pc' = "error"
    /\ last_merge' = NoMerge
    /\ UNCHANGED <<fund_v, idx_v, sign_v, ident_v, valid_v, n_fish, i0, kde_th,
                   valid_ids, previous_valid_ids, sim_pairs,
                   connections_candidates, pair_nos, entry, loaded, n_times>>

(* idx0s, idx1s without the self pairs *)
SimilarityBegin ==
    /\ pc = "similarity"
    /\ Len(valid_ids) > 0
    /\ Len(valid_ids[1]) = 3
    /\ sim_pairs' = {pr \in (1 .. Len(valid_ids)) \X (1 .. Len(valid_ids)) : pr[1] # pr[2]}
    /\ pc' = "simloop"
    /\ last_merge' = NoMerge
    /\ UNCHANGED <<fund_v, idx_v, sign_v, ident_v, valid_v, n_fish, i0, kde_th,
                   valid_ids, previous_valid_ids, connections_candidates,
                   pair_nos, entry, loaded, n_times>>

(* the pairs the loop has not reached and will reach before its break *)
SimPending == {pr \in sim_pairs : DMedF2(valid_ids, pr) <= f_th2}

(* the next pair in the order of np.argsort(d_med_f) *)
SimilarityStep ==
    /\ pc = "simloop"
    /\ \E pr \in SimPending :
          /\ \A qr \in SimPending : DMedF2(valid_ids, pr) <= DMedF2(valid_ids, qr)
          /\ LET r == SimilarityPair(Store, valid_ids, pr, i0)
             IN /\ SetStore(r.st)
                /\ valid_ids' = r.valid_ids
                /\ last_merge' = r.merge
          /\ sim_pairs' = sim_pairs \ {pr}
    /\ UNCHANGED <<n_fish, pc, i0, kde_th, previous_valid_ids,
                   connections_candidates, pair_nos, entry, loaded, n_times>>

(* the loop ends or breaks: previous_valid_ids = np.unique(valid_ids[:, 0]) *)
SimilarityEnd ==
    /\ pc = "simloop"
    /\ SimPending = {}
    /\ previous_valid_ids' = RowIds(valid_ids)
    /\ sim_pairs' = {}
    /\ NextWindow
    /\ last_merge' = NoMerge
    /\ UNCHANGED <<fund_v, idx_v, sign_v, ident_v, valid_v, n_fish, kde_th,
                   valid_ids, connections_candidates, pair_nos, entry, loaded, n_times>>

Filter ==
    /\ pc = "filter"
    /\ SetStore(power_density_filter(Store))
    /\ entry' = Store
    /\ pc' = "overlap"
    /\ last_merge' = NoMerge
    /\ UNCHANGED <<n_fish, i0, kde_th, valid_ids, previous_valid_ids, sim_pairs,
                   connections_candidates, pair_nos, loaded, n_times>>

(* connections_candidates[:, 2] on the empty one-dimensional array *)
OverlapIndexError ==
    /\ pc = "overlap"
    /\ Len(OverlapCandidates(Store)) = 0
    /\ pc' = "error"
    /\ last_merge' = NoMerge
    /\ UNCHANGED <<fund_v, idx_v, sign_v, ident_v, valid_v, n_fish, i0, kde_th,
                   valid_ids, previous_valid_ids, sim_pairs,
                   connections_candidates, pair_nos, entry, loaded, n_times>>

OverlapBegin ==
    /\ pc = "overlap"
    /\ \E rows \in {OverlapCandidates(Store)} :
          /\ Len(rows) > 0
          /\ connections_candidates' = rows
          /\ pair_nos' = 1 .. Len(rows)
    /\ entry' = Store
    /\ pc' = "resolve"
    /\ last_merge' = NoMerge
    /\ UNCHANGED <<fund_v, idx_v, sign_v, ident_v, valid_v, n_fish, i0, kde_th,
                   valid_ids, previous_valid_ids, sim_pairs, loaded, n_times>>

(* the next pair_no in the order of np.argsort(connections_candidates[:, 2]) *)
OverlapStep ==
    /\ pc = "resolve"
    /\ \E p \in pair_nos :
          /\ \A q \in pair_nos :
                ~DistLess(connections_candidates[q], connections_candidates[p])
          /\ \E ab \in ArgsortEnds(Store, connections_candidates, p) :
                LET r == OverlapPair(Store, connections_candidates, p, ab[1], ab[2])
                IN /\ SetStore(r.st)
                   /\ connections_candidates' = r.rows
                   /\ last_merge' = r.merge
          /\ pair_nos' = pair_nos \ {p}
    /\ UNCHANGED <<n_fish, pc, i0, kde_th, valid_ids, previous_valid_ids,
                   sim_pairs, entry, loaded, n_times>>

OverlapEnd ==
    /\ pc = "resolve"
    /\ pair_nos = {}
    /\ pc' = "topn"
    /\ last_merge' = NoMerge
    /\ UNCHANGED <<fund_v, idx_v, sign_v, ident_v, valid_v, n_fish, i0, kde_th,
                   valid_ids, previous_valid_ids, sim_pairs,
                   connections_candidates, pair_nos, entry, loaded, n_times>>

(* n_fish is the argument of main; it is read here only, so its value is  *)
(* drawn here                                                              *)
TopN ==
    /\ pc = "topn"
    /\ \E n \in 0 .. MaxFish :
          /\ n_fish' = n
          /\ \E V \in BestSets(Store, n) : SetStore(KeepBest(Store, V))
    /\ entry' = Store
    /\ pc' = "done"
    /\ last_merge' = NoMerge
    /\ UNCHANGED <<i0, kde_th, valid_ids, previous_valid_ids, sim_pairs,
                   connections_candidates, pair_nos, loaded, n_times>>

Next ==
    \/ Validate
    \/ SimilarityReturn
    \/ SimilarityIndexError
    \/ SimilarityBegin
    \/ SimilarityStep
    \/ SimilarityEnd
    \/ Filter
    \/ OverlapIndexError
    \/ OverlapBegin
    \/ OverlapStep
    \/ OverlapEnd
    \/ TopN

Spec == Init /\ [][Next]_vars

-----------------------------------------------------------------------------
(* Properties *)

(* the store as the last pass of a merge loop found it *)
Before == [Store EXCEPT !.ident_v = last_merge.before,
                        !.valid_v = last_merge.valid_before]

(* the states between two stages of the engine *)
StageBoundary == pc \in {"validate", "similarity", "filter", "overlap", "topn", "done"}

MergedTwo == last_merge.merged /\ last_merge.retired # last_merge.kept

RegionMerge == last_merge.kind = "overlap" /\ last_merge.merged /\ last_merge.rule > 1

InLastRegion(k) == idx_v[k] >= last_merge.lo /\ idx_v[k] <= last_merge.hi

LastPair == {last_merge.id0, last_merge.id1}

(* C1 as stated (for n_fish >= 1 and detections that were valid when the    *)
(* selection started): after the engine completes, no two detections that  *)
(* carry different non-absent ids have the same time index.                *)
C1_NoSharedTimeIndex ==
    (pc = "done" /\ n_fish >= 1) =>
        \A j, k \in Pos(Store) :
            (/\ ident_v[j] # NaN /\ ident_v[k] # NaN /\ ident_v[j] # ident_v[k]
             /\ entry.valid_v[j] = 1 /\ entry.valid_v[k] = 1)
                => idx_v[j] # idx_v[k]

(* C1, amended: right after the Overlap Resolver merges a pair by a region  *)
(* rule (2, 3 or 4), no time index of the contention region is carried by  *)
(* detections of the pair under two different non-absent ids.              *)
C1_RegionDisjoint ==
    RegionMerge =>
        \A j, k \in Pos(Store) :
            (/\ last_merge.before[j] \in LastPair
             /\ last_merge.before[k] \in LastPair
             /\ idx_v[j] = idx_v[k]
             /\ InLastRegion(j)
             /\ ident_v[j] # NaN
             /\ ident_v[k] # NaN)
                => ident_v[j] = ident_v[k]

(* a region merge of two tracks that shared a time index in the region *)
C1_Witness ==
    /\ RegionMerge
    /\ last_merge.id0 # last_merge.id1
    /\ \E j, k \in Pos(Store) :
          /\ last_merge.before[j] = last_merge.id0
          /\ last_merge.before[k] = last_merge.id1
          /\ idx_v[j] = idx_v[k]
          /\ InLastRegion(j)

(* C2 as stated: after the selection of the best n_fish the number of      *)
(* distinct non-absent ids is at most n_fish, for every n_fish >= 0.       *)
C2_AtMostNFish ==
    pc = "done" => Cardinality(AssignedIds(Store)) <= n_fish

(* C3 as stated (for n_fish >= 1): the ids the selection leaves are the     *)
(* up to n_fish ids with the largest detection counts among the ids valid  *)
(* when the selection starts; an id without a valid detection never stays. *)
C3_BestAmongValid ==
    (pc = "done" /\ n_fish >= 1) =>
        LET valid == ValidIds(entry)
            kept == AssignedIds(Store)
        IN /\ kept \subseteq valid
           /\ Cardinality(kept) = Min2(n_fish, Cardinality(valid))
           /\ \A v \in kept, u \in valid \ kept : Count(entry, u) <= Count(entry, v)

(* C4 as stated: at every stage boundary every detection whose id is absent *)
(* has validity 0.                                                         *)
C4_AbsentIsInvalid ==
    StageBoundary =>
        \A k \in Pos(Store) : ident_v[k] = NaN => valid_v[k] = 0

(* C5: right after the Similarity Merger or the Overlap Resolver merges two *)
(* ids, no detection carries the retired id.                               *)
C5_RetiredIdGone ==
    MergedTwo => \A k \in Pos(Store) : ident_v[k] # last_merge.retired

(* a region merge whose retired track had detections after the region *)
C5_Witness ==
    /\ MergedTwo
    /\ RegionMerge
    /\ \E k \in Pos(Store) :
          last_merge.before[k] = last_merge.retired /\ idx_v[k] > last_merge.hi

(* C6: frequency, power and time index of every detection, and the number  *)
(* and order of the detections, are those of the engine's input in every   *)
(* state.                                                                  *)
C6_Frame ==
    /\ fund_v = loaded.fund_v
    /\ sign_v = loaded.sign_v
    /\ idx_v = loaded.idx_v
    /\ Len(ident_v) = Len(loaded.ident_v)
    /\ Len(valid_v) = Len(loaded.valid_v)

(* the engine ran to its end and changed both columns it may change *)
C6_Witness ==
    /\ pc = "done"
    /\ ident_v # loaded.ident_v
    /\ valid_v # loaded.valid_v
    /\ \E k \in Pos(Store) : ident_v[k] = NaN /\ loaded.ident_v[k] # NaN

(* C7 as stated: a second run of the Power-Density Filter on the output of *)
(* its first run changes neither the validity mask nor the id column.      *)
C7_FilterIdempotent ==
    pc = "overlap" =>
        LET again == power_density_filter(Store)
        IN again.valid_v = valid_v /\ again.ident_v = ident_v

(* the detections of id in the window the Validator was just called for *)
InWindow(id) == {k \in WindowMask(Store, i0) : ident_v[k] = id}

(* C8 as stated: an id of the previously valid set that has detections in  *)
(* the window is reported valid by the Validator.                          *)
C8_AnyDetection ==
    pc = "similarity" =>
        \A id \in previous_valid_ids :
            InWindow(id) # {} => id \in RowIds(valid_ids)

(* C8, amended: an id of the previously valid set that has more than one    *)
(* detection in the window is reported valid by the Validator, supported   *)
(* by the window's valid frequencies or not.                               *)
C8_Hysteresis ==
    pc = "similarity" =>
        \A id \in previous_valid_ids :
            Cardinality(InWindow(id)) > 1
                => (id \in RowIds(valid_ids) /\ \A k \in InWindow(id) : valid_v[k] = 1)

(* a previously valid id reported valid with none of its detections of the *)
(* window within the support                                               *)
C8_Witness ==
    /\ pc = "similarity"
    /\ \E id \in previous_valid_ids :
          /\ Cardinality(InWindow(id)) > 1
          /\ ~Supported(Store, WindowAssigned(Store, i0), InWindow(id), kde_th)
          /\ id \in RowIds(valid_ids)

(* the time spans of a and b in st are disjoint and more than 10 minutes    *)
(* lie between the last detection of one and the first of the other        *)
FarApart(st, a, b) ==
    LET a_lo == SetMin(TakenIdxs(st, a))
        a_hi == SetMax(TakenIdxs(st, a))
        b_lo == SetMin(TakenIdxs(st, b))
        b_hi == SetMax(TakenIdxs(st, b))
    IN \/ times(b_lo) - times(a_hi) > 10 * 60
       \/ times(a_lo) - times(b_hi) > 10 * 60

(* C9 as stated: two valid tracks that are far apart when the Overlap       *)
(* Resolver starts are never a pair of its candidate list and never end    *)
(* under one id.                                                           *)
C9_FarApartAtEntry ==
    pc \in {"resolve", "topn"} =>
        \A a, b \in ValidIds(entry) :
            (a # b /\ FarApart(entry, a, b)) =>
                /\ \A r \in 1 .. Len(connections_candidates) :
                      {connections_candidates[r][1], connections_candidates[r][2]} # {a, b}
                /\ \A j \in Of(entry, a), k \in Of(entry, b) :
                      ident_v[j] = NaN \/ ident_v[j] # ident_v[k]

(* C9, amended: no pair of the candidate list as the Overlap Resolver       *)
(* builds it is far apart, and no pair the Overlap Resolver merges is far  *)
(* apart as the two tracks stand when the pair is resolved.                *)
C9_FarApartWhenPaired ==
    /\ (pc = "resolve" /\ last_merge.kind = "none") =>
          \A r \in 1 .. Len(connections_candidates) :
              ~FarApart(Store, connections_candidates[r][1], connections_candidates[r][2])
    /\ (last_merge.kind = "overlap" /\ MergedTwo) =>
          ~FarApart(Before, last_merge.id0, last_merge.id1)

(* a merge of two tracks with disjoint spans in a recording that held two   *)
(* valid tracks far apart when the Overlap Resolver started                *)
C9_Witness ==
    /\ last_merge.kind = "overlap"
    /\ MergedTwo
    /\ TakenIdxs(Before, last_merge.id0) \cap TakenIdxs(Before, last_merge.id1) = {}
    /\ \E a, b \in ValidIds(entry) : a # b /\ FarApart(entry, a, b)

(* the pair the Overlap Resolver just went through had B within the span   *)
(* of A, B's density in the contention region at most 0.1 and less than a  *)
(* third of A's, and rules 1 and 2 did not apply                           *)
SparseInside(A, B) ==
    LET a_lo == SetMin(TakenIdxs(Before, A))
        a_hi == SetMax(TakenIdxs(Before, A))
        b_lo == SetMin(TakenIdxs(Before, B))
        b_hi == SetMax(TakenIdxs(Before, B))
        cA == Cardinality({k \in Of(Before, A) : idx_v[k] >= b_lo /\ idx_v[k] <= b_hi})
        cB == Cardinality(Of(Before, B))
        d == Cardinality(TakenIdxs(Before, A) \cap TakenIdxs(Before, B))
    IN /\ a_lo <= b_lo /\ b_hi <= a_hi
       /\ 10 * cB <= b_hi - b_lo + 1
       /\ 3 * cB < cA
       /\ ~(cA <= 1 /\ cB <= 1)
       /\ ~(10 * d <= cA /\ 10 * d <= cB)

(* the pair was merged, B's detections of the region are absent and A's     *)
(* detections carry A's id                                                 *)
SurvivesAs(A, B) ==
    /\ last_merge.merged
    /\ last_merge.kept = A
    /\ \A k \in Of(Before, B) : ident_v[k] = NaN
    /\ \A k \in Of(Before, A) : ident_v[k] = A

PairProcessed ==
    /\ last_merge.kind = "overlap"
    /\ last_merge.id0 # last_merge.id1
    /\ Of(Before, last_merge.id0) # {}
    /\ Of(Before, last_merge.id1) # {}

Sparse(st, id) ==
    10 * Count(st, id) < SetMax(TakenIdxs(st, id)) - SetMin(TakenIdxs(st, id)) + 1

(* mean peak power of track id in st at or below dB_th *)
Weak(st, id) == SumOver(st.sign_v, Of(st, id)) <= (0 - 100) * Count(st, id)

(* C11: after the Power-Density Filter every track that was valid at entry  *)
(* with density below 0.1 has the ids it had and all its detections        *)
(* invalid, whatever its mean power and lifetime.                          *)
C11_SparseNotSplit ==
    pc = "overlap" =>
        \A id \in ValidIds(entry) :
            Sparse(entry, id) =>
                \A k \in Of(entry, id) : ident_v[k] = id /\ valid_v[k] = 0

(* a track of density below 0.1, mean power at or below -100 dB and more    *)
(* than 10 minutes long went through the filter                            *)
C11_Witness ==
    /\ pc = "overlap"
    /\ \E id \in ValidIds(entry) :
          /\ Sparse(entry, id)
          /\ Weak(entry, id)
          /\ times(SetMax(TakenIdxs(entry, id)) - SetMin(TakenIdxs(entry, id))) > 10 * 60
          /\ \A k \in Of(entry, id) : ident_v[k] = id /\ valid_v[k] = 0

(* the filter re-splits track id of st: lines 678-702 *)
ReSplit(st, id) ==
    /\ Weak(st, id)
    /\ 10 * Count(st, id) > SetMax(TakenIdxs(st, id)) - SetMin(TakenIdxs(st, id)) + 1
    /\ times(SetMax(TakenIdxs(st, id)) - SetMin(TakenIdxs(st, id))) > 10 * 60
    /\ 10 * Cardinality({k \in Of(st, id) : st.sign_v[k] > 0 - 100}) > Count(st, id)

(* the detections of track id of st in its j-th above-threshold segment *)
SegmentOf(st, id, j) ==
    LET seg == Segments(st, Of(st, id))
    IN {k \in Of(st, id) : st.idx_v[k] >= seg.up_idx[j] /\ st.idx_v[k] < seg.down_idx[j]}

(* the numbers of the segments of track id of st that hold detections *)
SegmentNos(st, id) ==
    LET seg == Segments(st, Of(st, id))
    IN {j \in 1 .. Min2(Len(seg.up_idx), Len(seg.down_idx)) : SegmentOf(st, id, j) # {}}

(* C12 as stated: when the filter re-splits a track into two or more        *)
(* segments, the detections of different segments carry different ids,     *)
(* none of them an id present before the filter, and all are valid.        *)
C12_DistinctSegmentIds ==
    pc = "overlap" =>
        \A id \in ValidIds(entry) :
            (ReSplit(entry, id) /\ Cardinality(SegmentNos(entry, id)) >= 2) =>
                \A j1, j2 \in SegmentNos(entry, id) :
                    \A a \in SegmentOf(entry, id, j1), b \in SegmentOf(entry, id, j2) :
                        /\ valid_v[a] = 1
                        /\ ident_v[a] \notin AssignedIds(entry)
                        /\ (j1 # j2 => ident_v[a] # ident_v[b])

(* C13 as stated: a Validator call for a window without assigned            *)
(* detections leaves the threshold the sweep carries as it was, and the    *)
(* sweep goes on to the next window with the previously valid ids it had.  *)
C13_EmptyWindowPassThrough ==
    [][(pc = "validate" /\ WindowAssigned(Store, i0) = {})
          => (kde_th' = kde_th /\ previous_valid_ids' = previous_valid_ids)]_vars

(* C14 as stated: when no pair of valid tracks is a candidate pair, the      *)
(* Overlap Resolver returns without an error and with the id column as it  *)
(* was.                                                                    *)
C14_NoCandidatesNoOp ==
    [][(pc = "overlap" /\ Len(OverlapCandidates(Store)) = 0)
          => (pc' = "topn" /\ ident_v' = ident_v)]_vars

(* C15 as stated (the empty window): after the Validator was called for a   *)
(* window without assigned detections, the Similarity Merger returns and   *)
(* the sweep goes on to the next window or, after the last one, to the     *)
(* filter.                                                                 *)
C15_EmptyWindowContinues ==
    [][(pc = "similarity" /\ WindowAssigned(Store, i0) = {})
          => pc' \in {"validate", "filter"}]_vars

(* C16: after the Power-Density Filter, of every track valid at entry with  *)
(* density < 0.1 or mean power <= -100 dB the detections that still carry  *)
(* its id are invalid, and every track valid at entry with density >= 0.1  *)
(* and mean power > -100 dB has its id and validity 1 on all detections.   *)
C16_RejectedInvalidGoodKept ==
    pc = "overlap" =>
        \A id \in ValidIds(entry) :
            IF Sparse(entry, id) \/ Weak(entry, id)
            THEN \A k \in Pos(Store) : ident_v[k] = id => valid_v[k] = 0
            ELSE \A k \in Of(entry, id) : ident_v[k] = id /\ valid_v[k] = 1

(* the filter re-split one track, part of which keeps its id, and kept      *)
(* another                                                                 *)
C16_Witness ==
    /\ pc = "overlap"
    /\ \E bad, good \in ValidIds(entry) :
          /\ ReSplit(entry, bad)
          /\ \E k \in Of(entry, bad) : ident_v[k] = bad /\ valid_v[k] = 0
          /\ \E k \in Of(entry, bad) : ident_v[k] # bad /\ valid_v[k] = 1
          /\ ~Sparse(entry, good) /\ ~Weak(entry, good)
          /\ \A k \in Of(entry, good) : ident_v[k] = good /\ valid_v[k] = 1

(* C17 as stated: when the Similarity Merger merges two tracks with          *)
(* different detection counts, the surviving id is that of the track with  *)
(* more detections.                                                        *)
C17_MorePopulousSurvives ==
    (last_merge.kind = "similarity" /\ MergedTwo) =>
        LET n0 == Count(Before, last_merge.id0)
            n1 == Count(Before, last_merge.id1)
        IN /\ n0 > n1 => last_merge.kept = last_merge.id0
           /\ n1 > n0 => last_merge.kept = last_merge.id1

(* the time indices two tracks have in common *)
SharedIdxs(st, a, b) == TakenIdxs(st, a) \cap TakenIdxs(st, b)

(* C18 as stated: neither the Similarity Merger nor the Overlap Resolver    *)
(* merges a pair of tracks when the number of time bins the two share      *)
(* exceeds 1% of the detection count of at least one of the two.           *)
C18_NoMergeAboveOnePercent ==
    (last_merge.kind \in {"similarity", "overlap"} /\ MergedTwo) =>
        LET d == Cardinality(SharedIdxs(Before, last_merge.id0, last_merge.id1))
        IN /\ 100 * d <= Count(Before, last_merge.id0)
           /\ 100 * d <= Count(Before, last_merge.id1)

(* C18 as stated, for the Overlap Resolver alone *)
C18_ResolverNoMergeAboveOnePercent ==
    (last_merge.kind = "overlap" /\ MergedTwo) =>
        LET d == Cardinality(SharedIdxs(Before, last_merge.id0, last_merge.id1))
        IN /\ 100 * d <= Count(Before, last_merge.id0)
           /\ 100 * d <= Count(Before, last_merge.id1)

(* the pair a pass of the Similarity Merger works on shows a frequency jump *)
(* above f_th in window w0 of the store st                                  *)
JumpBetween(st, id0, id1, w0) ==
    LET more_id == IF Count(st, id0) > Count(st, id1) THEN id0 ELSE id1
        less_id == IF more_id = id0 THEN id1 ELSE id0
    IN FreqJump(st, Of(st, more_id) \cap WindowMask(st, w0),
                    Of(st, less_id) \cap WindowMask(st, w0))

(* C19: when the in-window detections of a candidate pair of the Similarity *)
(* Merger, interleaved by time index, show a frequency jump above f_th at a *)
(* boundary between a run of one track and a run of the other, the pass     *)
(* raises no error and leaves the track-id column, the validity mask and    *)
(* the valid-id table unchanged.                                            *)
C19_JumpSkipsPair ==
    [][(pc = "simloop" /\ last_merge'.kind = "similarity"
          /\ JumpBetween(Store, last_merge'.id0, last_merge'.id1, i0))
       => (/\ pc' = "simloop"
           /\ ident_v' = ident_v
           /\ valid_v' = valid_v
           /\ valid_ids' = valid_ids)]_vars

(* a pass met a pair of distinct tracks that share no time index, whose     *)
(* medians are within f_th, and that show a jump; nothing was merged        *)
C19_Witness ==
    /\ pc = "simloop"
    /\ last_merge.kind = "similarity"
    /\ last_merge.id0 # last_merge.id1
    /\ SharedIdxs(Before, last_merge.id0, last_merge.id1) = {}
    /\ JumpBetween(Before, last_merge.id0, last_merge.id1, i0)
    /\ ~last_merge.merged
    /\ ident_v = last_merge.before

(* the detections of id in the contention region of the last pass, before it *)
RegionCount(id) ==
    Cardinality(InRegion(Before, id, last_merge.lo, last_merge.hi))

RegionLen == last_merge.hi - last_merge.lo + 1

(* the track of the last pair that is not the discarded one *)
OtherOfPair == IF last_merge.del_id = last_merge.id0 THEN last_merge.id1
               ELSE last_merge.id0

(* C20: decision rule 3 of the Overlap Resolver fires for a track, in either *)
(* position of the candidate pair, only if the density of that track in the *)
(* contention region is at most 0.1 and three times that density is less    *)
(* than the density of the other track; the track whose detections are      *)
(* discarded in the region is never the denser of the two.                  *)
C20_Rule3SparseOnly ==
    (last_merge.kind = "overlap" /\ last_merge.merged /\ last_merge.rule = 3) =>
        /\ 10 * RegionCount(last_merge.del_id) <= RegionLen
        /\ 3 * RegionCount(last_merge.del_id) < RegionCount(OtherOfPair)
        /\ RegionCount(last_merge.del_id) <= RegionCount(OtherOfPair)

(* C20, its last clause alone: the track discarded by rule 3 is never the   *)
(* denser of the two in the contention region                               *)
C20_DiscardedNeverDenser ==
    (last_merge.kind = "overlap" /\ last_merge.merged /\ last_merge.rule = 3) =>
        RegionCount(last_merge.del_id) <= RegionCount(OtherOfPair)

(* the smoothed power of track id of st at time index m against dB_th:      *)
(* -1 below, 0 equal, 1 above                                               *)
SmoothedAt(st, id, m) ==
    LET P == Of(st, id)
        T == TakenIdxs(st, id)
        scale == GapScale(T)
        pp == [x \in SetMin(T) .. SetMax(T) |-> Interp(st, P, scale, x)]
    IN Smoothed(pp, scale, SetMin(T), SetMax(T), m)

(* C21 as stated: in a re-split of the Power-Density Filter every detection *)
(* that receives a new valid id lies at a time bin where the smoothed power *)
(* is above power_th, every detection of the rejected track at such a bin   *)
(* receives a new id, and the detections at bins where the smoothed power   *)
(* is below power_th keep the old id and stay invalid.                      *)
C21_NewIdIffAbove ==
    pc = "overlap" =>
        \A id \in ValidIds(entry) :
            ReSplit(entry, id) =>
                \A k \in Of(entry, id) :
                    LET s == SmoothedAt(entry, id, entry.idx_v[k])
                    IN /\ (ident_v[k] # id /\ valid_v[k] = 1) => s > 0
                       /\ s > 0 => ident_v[k] \notin AssignedIds(entry)
                       /\ s < 0 => (ident_v[k] = id /\ valid_v[k] = 0)

(* C21, its first clause alone: a detection with a new valid id lies at a   *)
(* bin where the smoothed power is above power_th                           *)
C21_NewIdOnlyAbove ==
    pc = "overlap" =>
        \A id \in ValidIds(entry) :
            ReSplit(entry, id) =>
                \A k \in Of(entry, id) :
                    (ident_v[k] # id /\ valid_v[k] = 1) =>
                        SmoothedAt(entry, id, entry.idx_v[k]) > 0

(* C21, its second clause alone: a detection at a bin where the smoothed    *)
(* power is above power_th receives a new id                                *)
C21_AboveGetsNewId ==
    pc = "overlap" =>
        \A id \in ValidIds(entry) :
            ReSplit(entry, id) =>
                \A k \in Of(entry, id) :
                    SmoothedAt(entry, id, entry.idx_v[k]) > 0 =>
                        ident_v[k] \notin AssignedIds(entry)

(* C22: after each merge of the Overlap Resolver no candidate pair that is  *)
(* still to be resolved references the retired id: every reference to it   *)
(* has been replaced by the surviving id before the next pair is resolved. *)
C22_PendingRewritten ==
    [][(pc = "resolve" /\ last_merge'.kind = "overlap" /\ last_merge'.merged
          /\ last_merge'.retired # last_merge'.kept)
       => \A p \in pair_nos' : \A c \in 1 .. 2 :
             connections_candidates'[p][c] =
                 IF connections_candidates[p][c] = last_merge'.retired
                 THEN last_merge'.kept
                 ELSE connections_candidates[p][c]]_vars

(* C22, the state it leaves: no pending pair names the retired id *)
C22_NoPendingRetired ==
    (last_merge.kind = "overlap" /\ MergedTwo) =>
        \A p \in pair_nos :
            /\ connections_candidates[p][1] # last_merge.retired
            /\ connections_candidates[p][2] # last_merge.retired

(* a merge after which a pending pair that named the retired id in its      *)
(* second place when the list was built names the surviving id there       *)
C22_Witness ==
    /\ last_merge.kind = "overlap"
    /\ MergedTwo
    /\ \E p \in pair_nos :
          /\ OverlapCandidates(entry)[p][2] = last_merge.retired
          /\ connections_candidates[p][2] = last_merge.kept
          /\ connections_candidates[p][1] # last_merge.kept

(* C23 as stated: when rule 2 of the Overlap Resolver fires, the merged     *)
(* track carries the numerically lower of the two ids and the detections   *)
(* set to absent inside the contention region are those of the track with  *)
(* the higher id, also for pairs whose ids were rewritten by earlier merges *)
C23_Rule2LowerIdKept ==
    (last_merge.kind = "overlap" /\ MergedTwo /\ last_merge.rule = 2) =>
        LET low == Min2(last_merge.id0, last_merge.id1)
            high == Max2(last_merge.id0, last_merge.id1)
        IN /\ last_merge.kept = low
           /\ \A k \in Pos(Store) :
                 (InLastRegion(k) /\ last_merge.before[k] = high) => ident_v[k] = NaN
           /\ \A k \in Pos(Store) :
                 (InLastRegion(k) /\ last_merge.before[k] = low) => ident_v[k] = low

(* C23, its second clause alone, for the pairs as the list was built: the   *)
(* detections set to absent are those of the track with the higher id      *)
C23_Rule2HigherIdAbsent ==
    (last_merge.kind = "overlap" /\ MergedTwo /\ last_merge.rule = 2) =>
        last_merge.del_id = Max2(last_merge.id0, last_merge.id1)

(* no track of the store st has two detections at one time index *)
OnePerTimeIndex(st) ==
    \A j, k \in Pos(st) :
        (j # k /\ st.ident_v[j] # NaN /\ st.ident_v[j] = st.ident_v[k]) =>
            st.idx_v[j] # st.idx_v[k]

(* C24 as stated: no track of the input has two detections at one time      *)
(* index, and after every merge of the Similarity Merger and of the        *)
(* Overlap Resolver no track has two detections at one time index.         *)
C24_OnePerTimeIndex ==
    /\ OnePerTimeIndex(loaded)
    /\ (last_merge.kind \in {"similarity", "overlap"} /\ last_merge.merged) =>
          OnePerTimeIndex(Store)

(* C24 for the Similarity Merger alone *)
C24_SimilarityOnePerTimeIndex ==
    (last_merge.kind = "similarity" /\ last_merge.merged) => OnePerTimeIndex(Store)

(* all detections of the store st that share a non-absent id have one       *)
(* validity value                                                           *)
UniformValidity(st) ==
    \A j, k \in Pos(st) :
        (st.ident_v[j] # NaN /\ st.ident_v[j] = st.ident_v[k]) =>
            st.valid_v[j] = st.valid_v[k]

(* C25: at every stage boundary up to and including the Overlap Resolver,   *)
(* all detections that share one non-absent track id have the same         *)
(* validity value, so that a track selected by id and the track selected   *)
(* by id and validity are the same detections.                             *)
C25_UniformValidity ==
    (StageBoundary /\ pc # "done") =>
        /\ UniformValidity(Store)
        /\ \A id \in ValidIds(Store) :
              Of(Store, id) = {k \in Of(Store, id) : valid_v[k] = 1}

(* C25 inside the merge loops as well *)
C25_UniformValidityInLoops == pc \notin {"done", "error"} => UniformValidity(Store)

(* the Overlap Resolver has ended with a valid track of several detections  *)
(* and an invalid track of several detections in a store where the filter  *)
(* gave new ids and the resolver relabelled detections                     *)
C25_Witness ==
    /\ pc = "topn"
    /\ \E a \in ValidIds(Store) : Count(Store, a) > 1
    /\ \E b \in AssignedIds(Store) \ ValidIds(Store) : Count(Store, b) > 1
    /\ ident_v # entry.ident_v
    /\ \E k \in Pos(Store) : ident_v[k] \notin AssignedIds(loaded) \cup {NaN}

(* the last pass of the Overlap Resolver resolved a pair of two equal ids *)
SelfPair == last_merge.kind = "overlap" /\ last_merge.id0 = last_merge.id1

C26_SelfPairKeepsIds == SelfPair => ident_v = last_merge.before

(* a self-pair was resolved *)
C26_SelfPairReached == SelfPair

=============================================================================
